---------------------------- MODULE Spec2Model ----------------------------
(***************************************************************************)
(* Model of lib/cough-detection-models/convert_svm.py: a linear script     *)
(* that loads a fitted SVM from 'svm_param.joblib', projects eight of its  *)
(* attributes into a dict, writes the dict as JSON to 'svm_model.json' and *)
(* prints a confirmation.                                                  *)
(*                                                                         *)
(* Python values are tagged records (field k names the Python type).       *)
(* Text (a chunk handed to f.write, the content of a file) is a sequence   *)
(* of one-character strings.  A float is held as a whole number of tenths  *)
(* (t stands for the double nearest to t/10), whose repr() is the          *)
(* positional decimal with one fractional digit.                           *)
(***************************************************************************)
EXTENDS Integers, Sequences, FiniteSets, TLC

VARIABLES
    artifact,    \* content of 'svm_param.joblib' (the environment's input)
    writable,    \* whether 'svm_model.json' can be opened for writing
    chunk_size,  \* the text layer's limit on pending text, in characters
    bufsize,     \* capacity of the binary layer's buffer, in characters
    pc,          \* position of the script
    svm_model,   \* line 8
    model_data,  \* lines 11-20
    f,           \* the file object of line 23
    pos,         \* chunks of json.dump's generator already consumed
    disk,        \* 'svm_model.json' as any other process sees it
    stdout,      \* lines printed
    err,         \* the unhandled exception that ended the run
    trace,       \* steps begun in this run, in order
    disk0,       \* 'svm_model.json' when this run started
    run,         \* number of the current run of the script
    out1         \* 'svm_model.json' as the first run left it

vars == <<artifact, writable, chunk_size, bufsize, pc, svm_model, model_data, f, pos,
          disk, stdout, err, trace, disk0, run, out1>>

(***************************************************************************)
(* Bounds of the model.                                                    *)
(***************************************************************************)
\* Scaled-down sizes of the two buffering layers, for the case of a record
\* larger than the buffers: the text layer's chunk size (8192 in CPython)
\* and the binary layer's buffer, half of it (the block size 4096).
SmallChunkSize == 24
SmallBufferSize == 12
\* Runs of the script in a row under SpecRerun.
MaxRuns == 2

None == [k |-> "None"]
Absent == [exists |-> FALSE, data |-> <<>>]
File(text) == [exists |-> TRUE, data |-> text]

(***************************************************************************)
(* Python and numpy values.                                                *)
(***************************************************************************)
PyFloat(t) == [k |-> "float", t |-> t]
PyInt(n) == [k |-> "int", n |-> n]
PyStr(s) == [k |-> "str", s |-> s]
PyList(items) == [k |-> "list", items |-> items]
PyDict(keys, vals) == [k |-> "dict", keys |-> keys, vals |-> vals]
\* numpy.float32 scalar: not a subclass of float
NpFloat32(t) == [k |-> "float32", t |-> t]
\* a Python function given as the kernel
PyFunction(name) == [k |-> "function", name |-> name]
\* numpy.ndarray: a shape and the elements in row-major (C) order
NdArray(dtype, shape, data) ==
    [k |-> "ndarray", dtype |-> dtype, shape |-> shape, data |-> data]
\* scipy.sparse.csr_matrix (the model was fitted on sparse data)
CsrMatrix(shape) == [k |-> "csr_matrix", shape |-> shape]

Exception(type, step) == [k |-> "exception", type |-> type, step |-> step]

(***************************************************************************)
(* ndarray.tolist(): nested lists of Python scalars, same shape and order. *)
(***************************************************************************)
item(dtype, x) == IF dtype = "float64" THEN PyFloat(x) ELSE PyInt(x)

\* a row read from its last element to its first
tolist_row_reversed(a, i) ==
    LET c == a.shape[Len(a.shape)]
    IN  PyList([j \in 1..c |-> item(a.dtype, a.data[(i - 1) * c + (c + 1 - j)])])

tolist_row(a, i) ==
    LET c == a.shape[Len(a.shape)]
    IN  PyList([j \in 1..c |-> item(a.dtype, a.data[(i - 1) * c + j])])

tolist(a) ==
    IF Len(a.shape) = 1
    THEN tolist_row(a, 1)
    ELSE PyList([i \in 1..a.shape[1] |-> tolist_row(a, i)])

has_tolist(v) == v.k = "ndarray"

(***************************************************************************)
(* The input artifacts.                                                    *)
(***************************************************************************)
SVC(sv, dual, intercept, gamma, C, kernel, support, n_support) ==
    [cls |-> "SVC", support_vectors_ |-> sv, dual_coef_ |-> dual,
     intercept_ |-> intercept, gamma |-> gamma, C |-> C, kernel |-> kernel,
     support_ |-> support, n_support_ |-> n_support]

\* 2 classes, 2 support vectors of dimension 2, kernel "rbf", gamma "scale"
SvcRbf ==
    SVC(NdArray("float64", <<2, 2>>, <<15, -20, 1, 30>>),
        NdArray("float64", <<1, 2>>, <<-10, 10>>),
        NdArray("float64", <<1>>, <<5>>),
        PyStr("scale"), PyFloat(10), PyStr("rbf"),
        NdArray("int32", <<2>>, <<0, 2>>),
        NdArray("int32", <<2>>, <<1, 1>>))

\* 3 support vectors of dimension 1, kernel "linear", gamma 0.1, C the int 10
SvcLinear ==
    SVC(NdArray("float64", <<3, 1>>, <<-5, 0, 123>>),
        NdArray("float64", <<1, 3>>, <<-7, -3, 10>>),
        NdArray("float64", <<1>>, <<-12>>),
        PyFloat(1), PyInt(10), PyStr("linear"),
        NdArray("int32", <<3>>, <<0, 1, 11>>),
        NdArray("int32", <<2>>, <<2, 1>>))

\* kernel "precomputed": scikit-learn leaves support_vectors_ an empty array
SvcPrecomputed ==
    SVC(NdArray("float64", <<0, 0>>, <<>>),
        NdArray("float64", <<1, 2>>, <<-10, 10>>),
        NdArray("float64", <<1>>, <<0>>),
        PyStr("auto"), PyFloat(5), PyStr("precomputed"),
        NdArray("int32", <<2>>, <<1, 2>>),
        NdArray("int32", <<2>>, <<1, 1>>))

\* gamma given as a numpy.float32
SvcGamma32 ==
    [SvcRbf EXCEPT !.gamma = NpFloat32(1)]

\* kernel given as a Python function (fitted as a precomputed kernel)
SvcCallable ==
    [SvcPrecomputed EXCEPT !.kernel = PyFunction("my_kernel")]

\* fitted on sparse data: support_vectors_ and dual_coef_ are sparse matrices
SvcSparse ==
    [SvcRbf EXCEPT !.support_vectors_ = CsrMatrix(<<2, 2>>),
                   !.dual_coef_ = CsrMatrix(<<1, 2>>)]

\* another estimator type, pickled with joblib: no support vectors
LinearSVC ==
    [cls |-> "LinearSVC", intercept_ |-> NdArray("float64", <<1>>, <<5>>),
     C |-> PyFloat(10)]

Pickle(obj) == [k |-> "pickle", obj |-> obj]
Missing == [k |-> "missing"]
Corrupted == [k |-> "corrupted"]

ValidModels == {SvcRbf, SvcLinear, SvcPrecomputed, SvcGamma32, SvcCallable,
                SvcSparse}
Artifacts == {Missing, Corrupted, Pickle(LinearSVC)}
                 \cup {Pickle(m) : m \in ValidModels}

(***************************************************************************)
(* joblib.load('svm_param.joblib'), line 8.                                *)
(***************************************************************************)
UnpickleErrors == {"UnpicklingError", "EOFError"}

\* a load that falls back to a default model when the file cannot be read
joblib_load_ignoring_missing(a) ==
    IF a.k = "pickle"
    THEN {[ok |-> TRUE, value |-> a.obj]}
    ELSE {[ok |-> TRUE, value |-> SvcRbf]}

joblib_load(a) ==
    CASE a.k = "missing" ->
            {[ok |-> FALSE, value |-> Exception("FileNotFoundError", "load")]}
      [] a.k = "corrupted" ->
            {[ok |-> FALSE, value |-> Exception(e, "load")] : e \in UnpickleErrors}
      [] a.k = "pickle" ->
            {[ok |-> TRUE, value |-> a.obj]}

(***************************************************************************)
(* Lines 11-20: the dict display, evaluated key by key in source order.    *)
(* Each entry reads an attribute of svm_model; the array-valued ones call  *)
(* .tolist() on it.  A missing attribute or method is an AttributeError.   *)
(***************************************************************************)
Keys == <<"support_vectors", "dual_coef", "intercept", "gamma", "C",
          "kernel", "support", "n_support">>
Attrs == <<"support_vectors_", "dual_coef_", "intercept_", "gamma", "C",
           "kernel", "support_", "n_support_">>
CallsToList == <<TRUE, TRUE, TRUE, FALSE, FALSE, FALSE, TRUE, TRUE>>

hasattr(o, name) == name \in DOMAIN o

entry_ok(o, i) ==
    /\ hasattr(o, Attrs[i])
    /\ CallsToList[i] => has_tolist(o[Attrs[i]])

\* 'n_support' filled from support_, the line above it
entry_copy_paste(o, i) ==
    IF i = 8 THEN tolist(o[Attrs[7]])
    ELSE IF CallsToList[i] THEN tolist(o[Attrs[i]]) ELSE o[Attrs[i]]

entry(o, i) == IF CallsToList[i] THEN tolist(o[Attrs[i]]) ELSE o[Attrs[i]]

extract(o) ==
    IF \A i \in 1..Len(Attrs) : entry_ok(o, i)
    THEN [ok |-> TRUE,
          value |-> PyDict(Keys, [i \in 1..Len(Keys) |-> entry(o, i)])]
    ELSE [ok |-> FALSE, value |-> Exception("AttributeError", "extract")]

(***************************************************************************)
(* json.dump(model_data, f), line 24: the chunks that JSONEncoder's        *)
(* iterencode yields, each handed to f.write in turn.                      *)
(***************************************************************************)
DigitChar(d) == <<"0", "1", "2", "3", "4", "5", "6", "7", "8", "9">>[d + 1]

RECURSIVE NatStr(_)
NatStr(n) ==
    IF n < 10 THEN <<DigitChar(n)>>
    ELSE NatStr(n \div 10) \o <<DigitChar(n % 10)>>

Abs(n) == IF n < 0 THEN -n ELSE n
Sign(n) == IF n < 0 THEN <<"-">> ELSE <<>>

\* int.__repr__
int_repr(n) == Sign(n) \o NatStr(Abs(n))

\* a formatting that drops the fractional part ("%d")
float_repr_truncating(t) == Sign(t) \o NatStr(Abs(t) \div 10)

\* float.__repr__ of the double nearest to t/10
float_repr(t) ==
    Sign(t) \o NatStr(Abs(t) \div 10) \o <<".">> \o <<DigitChar(Abs(t) % 10)>>

\* the characters of the strings the script and the models use
Chars(s) ==
    CASE s = "support_vectors" ->
            <<"s", "u", "p", "p", "o", "r", "t", "_", "v", "e", "c", "t", "o", "r", "s">>
      [] s = "dual_coef" -> <<"d", "u", "a", "l", "_", "c", "o", "e", "f">>
      [] s = "intercept" -> <<"i", "n", "t", "e", "r", "c", "e", "p", "t">>
      [] s = "gamma" -> <<"g", "a", "m", "m", "a">>
      [] s = "C" -> <<"C">>
      [] s = "kernel" -> <<"k", "e", "r", "n", "e", "l">>
      [] s = "support" -> <<"s", "u", "p", "p", "o", "r", "t">>
      [] s = "n_support" -> <<"n", "_", "s", "u", "p", "p", "o", "r", "t">>
      [] s = "scale" -> <<"s", "c", "a", "l", "e">>
      [] s = "auto" -> <<"a", "u", "t", "o">>
      [] s = "rbf" -> <<"r", "b", "f">>
      [] s = "linear" -> <<"l", "i", "n", "e", "a", "r">>
      [] s = "precomputed" ->
            <<"p", "r", "e", "c", "o", "m", "p", "u", "t", "e", "d">>

Strings == {"support_vectors", "dual_coef", "intercept", "gamma", "C",
            "kernel", "support", "n_support", "scale", "auto", "rbf",
            "linear", "precomputed"}

Quote == "\""

\* json.encoder.encode_basestring_ascii on a string of plain ASCII letters
encode_basestring_ascii(s) == <<Quote>> \o Chars(s) \o <<Quote>>

item_separator == <<",", " ">>
key_separator == <<":", " ">>

is_scalar(v) == v.k \in {"str", "int", "float"}

scalar_text(v) ==
    CASE v.k = "str" -> encode_basestring_ascii(v.s)
      [] v.k = "int" -> int_repr(v.n)
      [] v.k = "float" -> float_repr(v.t)

\* _iterencode_list: the chunks for the elements from the i-th on, then "]".
\* The lists of this program come from tolist and hold numbers or lists.
RECURSIVE list_chunks(_, _)
iterencode_list(lst) ==
    IF Len(lst.items) = 0 THEN << <<"[", "]">> >> ELSE list_chunks(lst.items, 1)

list_chunks(items, i) ==
    IF i > Len(items) THEN << <<"]">> >>
    ELSE LET buf == IF i = 1 THEN <<"[">> ELSE item_separator
             v == items[i]
         IN  (IF is_scalar(v)
              THEN <<buf \o scalar_text(v)>>
              ELSE <<buf>> \o iterencode_list(v))
             \o list_chunks(items, i + 1)

\* whether the encoder has a representation of v; otherwise default(v) raises
serializable(v) == is_scalar(v) \/ v.k = "list"

\* the first key whose value the encoder cannot represent (Len + 1 if none)
first_unserializable(d) ==
    IF \A i \in 1..Len(d.vals) : serializable(d.vals[i]) THEN Len(d.vals) + 1
    ELSE CHOOSE i \in 1..Len(d.vals) :
            /\ ~serializable(d.vals[i])
            /\ \A j \in 1..(i - 1) : serializable(d.vals[j])

\* the separator, the key and ": " that _iterencode_dict yields for key i
member_head(d, i) ==
    (IF i = 1 THEN <<>> ELSE <<item_separator>>)
        \o <<encode_basestring_ascii(d.keys[i]), key_separator>>

\* the chunks that _iterencode_dict yields for the keys i .. last
RECURSIVE member_chunks(_, _, _)
member_chunks(d, i, last) ==
    IF i > last THEN <<>>
    ELSE member_head(d, i)
            \o (IF is_scalar(d.vals[i]) THEN <<scalar_text(d.vals[i])>>
                ELSE iterencode_list(d.vals[i]))
            \o member_chunks(d, i + 1, last)

\* _iterencode_dict: the chunks yielded, and whether the generator then
\* raises TypeError (at the first value it cannot represent, after yielding
\* that value's key) instead of finishing with "}".
iterencode(d) ==
    LET bad == first_unserializable(d)
    IN  IF bad > Len(d.vals)
        THEN [chunks |-> << <<"{">> >> \o member_chunks(d, 1, Len(d.keys))
                            \o << <<"}">> >>,
              raises |-> FALSE]
        ELSE [chunks |-> << <<"{">> >> \o member_chunks(d, 1, bad - 1)
                            \o member_head(d, bad),
              raises |-> TRUE]

RECURSIVE Concat(_)
Concat(chunks) ==
    IF Len(chunks) = 0 THEN <<>> ELSE Head(chunks) \o Concat(Tail(chunks))

\* json.dumps: the whole text of a serializable record
dumps(d) == Concat(iterencode(d).chunks)

(***************************************************************************)
(* The file object of line 23: a text layer (TextIOWrapper) over a binary  *)
(* buffer (BufferedWriter) over the file.  f.write(chunk) keeps text       *)
(* pending in the text layer, which hands it down when chunk_size is       *)
(* reached; the binary layer keeps what fits in its buffer and sends the   *)
(* rest to the file.  close() sends down everything still held.            *)
(***************************************************************************)
Message == "SVM model converted to JSON format"

\* TextIOWrapper's chunk size
CHUNK_SIZE == 8192
\* io.DEFAULT_BUFFER_SIZE
DEFAULT_BUFFER_SIZE == 8192
\* the block size of the file system, which open() takes as the buffer size
BLOCK_SIZE == 4096

\* open(..., 'a'): the existing content is kept
open_a(d) == File(d.data)

\* open('svm_model.json', 'w'): the file is created or truncated
open_w(d) == File(<<>>)

flushed(d, text) == [d EXCEPT !.data = @ \o text]

\* the state of the output: the file, the text layer's pending text and the
\* binary layer's buffer
Out(d, fo) == [disk |-> d, pending |-> fo.pending, buffer |-> fo.buffer]

\* BufferedWriter.write(b): b goes into the buffer if it fits; otherwise the
\* buffer is written to the file, and then b too if it is larger than the
\* buffer, or else b becomes the buffer's content
buffered_write(o, b, cap) ==
    IF Len(b) <= cap - Len(o.buffer)
    THEN [o EXCEPT !.buffer = @ \o b]
    ELSE IF Len(b) > cap
    THEN [o EXCEPT !.disk = flushed(flushed(@, o.buffer), b), !.buffer = <<>>]
    ELSE [o EXCEPT !.disk = flushed(@, o.buffer), !.buffer = b]

\* the text layer hands its pending text to the binary layer
writeflush(o, cap) ==
    IF Len(o.pending) = 0 THEN o
    ELSE buffered_write([o EXCEPT !.pending = <<>>], o.pending, cap)

\* TextIOWrapper.write(chunk): if the chunk would take the pending text over
\* the chunk size, the pending text is handed down first; the chunk is then
\* added, and handed down too once chunk_size characters are pending
text_write(o, chunk, chunk_sz, cap) ==
    LET o1 == IF Len(o.pending) + Len(chunk) > chunk_sz
              THEN writeflush(o, cap) ELSE o
        o2 == [o1 EXCEPT !.pending = @ \o chunk]
    IN  IF Len(o2.pending) >= chunk_sz THEN writeflush(o2, cap) ELSE o2

\* a close that drops what is still held
close_without_flush(d, fo) == d

\* f.close(): the pending text goes to the buffer and the buffer to the file
close(d, fo) == flushed(flushed(d, fo.buffer), fo.pending)

(***************************************************************************)
(* The script, one action per step.                                        *)
(***************************************************************************)
Terminal == pc \in {"Completed", "Failed"}

\* an exception handler that logs nothing and goes on to the next statement
RaiseSwallowed(e) ==
    /\ pc' = "Completed"
    /\ err' = None
    /\ stdout' = Append(stdout, Message)

\* No statement of the script is inside a try: an exception ends the run.
Raise(e) ==
    /\ pc' = "Failed"
    /\ err' = e
    /\ stdout' = stdout

Load ==
    /\ pc = "load"
    /\ trace' = Append(trace, "load")
    /\ \E r \in joblib_load(artifact) :
          IF r.ok
          THEN /\ svm_model' = r.value
               /\ pc' = "extract"
               /\ UNCHANGED <<err, stdout>>
          ELSE /\ Raise(r.value)
               /\ UNCHANGED svm_model
    /\ UNCHANGED <<artifact, writable, chunk_size,
                   bufsize, model_data, f, pos, disk,
                   disk0, run, out1>>

Extract ==
    /\ pc = "extract"
    /\ trace' = Append(trace, "extract")
    /\ LET r == extract(svm_model)
       IN  IF r.ok
           THEN /\ model_data' = r.value
                /\ pc' = "open"
                /\ UNCHANGED <<err, stdout>>
           ELSE /\ Raise(r.value)
                /\ UNCHANGED model_data
    /\ UNCHANGED <<artifact, writable, chunk_size,
                   bufsize, svm_model, f, pos, disk,
                   disk0, run, out1>>

Open ==
    /\ pc = "open"
    /\ trace' = Append(trace, "serialize")
    /\ IF writable
       THEN /\ disk' = open_w(disk)
            /\ f' = [k |-> "file", closed |-> FALSE, pending |-> <<>>,
                     buffer |-> <<>>]
            /\ pos' = 0
            /\ pc' = "dump"
            /\ UNCHANGED <<err, stdout>>
       ELSE /\ Raise(Exception("PermissionError", "serialize"))
            /\ UNCHANGED <<disk, f, pos>>
    /\ UNCHANGED <<artifact, writable, chunk_size,
                   bufsize, svm_model, model_data,
                   disk0, run, out1>>

\* one turn of "for chunk in iterable: fp.write(chunk)"
Write ==
    /\ pc = "dump"
    /\ LET enc == iterencode(model_data)
       IN  /\ pos < Len(enc.chunks)
           /\ LET o == text_write(Out(disk, f), enc.chunks[pos + 1],
                                   chunk_size, bufsize)
              IN  /\ disk' = o.disk
                  /\ f' = [f EXCEPT !.pending = o.pending, !.buffer = o.buffer]
    /\ pos' = pos + 1
    /\ UNCHANGED <<artifact, writable, chunk_size,
                   bufsize, pc, svm_model, model_data,
                   stdout, err, trace, disk0, run, out1>>

\* the generator raises TypeError; the with statement closes f on the way out
DumpRaise ==
    /\ pc = "dump"
    /\ LET enc == iterencode(model_data)
       IN  /\ pos = Len(enc.chunks)
           /\ enc.raises
    /\ disk' = close(disk, f)
    /\ f' = [f EXCEPT !.closed = TRUE, !.pending = <<>>, !.buffer = <<>>]
    /\ Raise(Exception("TypeError", "serialize"))
    /\ UNCHANGED <<artifact, writable, chunk_size,
                   bufsize, svm_model, model_data, pos,
                   trace, disk0, run, out1>>

\* json.dump returns; the with statement closes f
Close ==
    /\ pc = "dump"
    /\ LET enc == iterencode(model_data)
       IN  /\ pos = Len(enc.chunks)
           /\ ~enc.raises
    /\ disk' = close(disk, f)
    /\ f' = [f EXCEPT !.closed = TRUE, !.pending = <<>>, !.buffer = <<>>]
    /\ pc' = "print"
    /\ UNCHANGED <<artifact, writable, chunk_size,
                   bufsize, svm_model, model_data, pos,
                   stdout, err, trace, disk0, run, out1>>

\* the message, then a wait for a key press that never comes
NotifyAndWait ==
    /\ pc = "print"
    /\ trace' = Append(trace, "notify")
    /\ stdout' = Append(stdout, Message)
    /\ pc' = "wait"
    /\ UNCHANGED <<artifact, writable, chunk_size,
                   bufsize, svm_model, model_data, f,
                   pos, disk, err, disk0, run, out1>>

\* line 26
Notify ==
    /\ pc = "print"
    /\ trace' = Append(trace, "notify")
    /\ stdout' = Append(stdout, Message)
    /\ pc' = "Completed"
    /\ UNCHANGED <<artifact, writable, chunk_size,
                   bufsize, svm_model, model_data, f,
                   pos, disk, err, disk0, run, out1>>

\* the script is started again on the same artifact and the same directory
Rerun ==
    /\ Terminal
    /\ run < MaxRuns
    /\ run' = run + 1
    /\ out1' = IF run = 1 THEN disk ELSE out1
    /\ disk0' = disk
    /\ pc' = "load"
    /\ svm_model' = None
    /\ model_data' = None
    /\ f' = None
    /\ pos' = 0
    /\ stdout' = <<>>
    /\ err' = None
    /\ trace' = <<>>
    /\ UNCHANGED <<artifact, writable, chunk_size,
                   bufsize, disk>>

\* 'svm_model.json' before a run: absent, or the record an earlier run wrote
PreviousFiles == {Absent, File(dumps(extract(SvcRbf).value)),
                  File(dumps(extract(SvcLinear).value))}

\* the chunk size and the buffer size: CPython's, for which the records of
\* this model fit in the text layer, and the scaled-down ones
BufferSizes == {<<CHUNK_SIZE, DEFAULT_BUFFER_SIZE>>, <<CHUNK_SIZE, BLOCK_SIZE>>,
                <<SmallChunkSize, SmallBufferSize>>,
                <<SmallChunkSize, SmallChunkSize>>}

Init ==
    /\ artifact \in Artifacts
    /\ writable \in BOOLEAN
    /\ \E sizes \in BufferSizes :
          /\ chunk_size = sizes[1]
          /\ bufsize = sizes[2]
    /\ disk \in PreviousFiles
    /\ disk0 = disk
    /\ pc = "load"
    /\ svm_model = None
    /\ model_data = None
    /\ f = None
    /\ pos = 0
    /\ stdout = <<>>
    /\ err = None
    /\ trace = <<>>
    /\ run = 1
    /\ out1 = None

Step == Load \/ Extract \/ Open \/ Write \/ DumpRaise \/ Close \/ Notify

Next == Step

NextRerun == Step \/ Rerun

\* one run of the script
Spec == Init /\ [][Next]_vars

\* one run of the script; the interpreter keeps executing until the run ends
FairSpec == Spec /\ WF_vars(Next)

\* runs of the script in a row
SpecRerun == Init /\ [][NextRerun]_vars

(***************************************************************************)
(* The consumer's side: json.loads of the text of 'svm_model.json'.        *)
(* A number with a fraction is a float, one without is an int; a text that *)
(* is not one complete JSON value is a JSONDecodeError.                    *)
(***************************************************************************)
JSONDecodeError == [k |-> "JSONDecodeError"]

At(s, i) == IF i >= 1 /\ i <= Len(s) THEN s[i] ELSE "EOF"

IsDigit(c) == c \in {"0", "1", "2", "3", "4", "5", "6", "7", "8", "9"}
DigitVal(c) == CHOOSE d \in 0..9 : DigitChar(d) = c

RECURSIVE SkipWs(_, _)
SkipWs(s, i) == IF At(s, i) = " " THEN SkipWs(s, i + 1) ELSE i

\* the digits from position i on: their value and the position after them
RECURSIVE ScanDigits(_, _, _)
ScanDigits(s, i, acc) ==
    IF IsDigit(At(s, i)) THEN ScanDigits(s, i + 1, acc * 10 + DigitVal(s[i]))
    ELSE [n |-> acc, i |-> i]

ScanNumber(s, i) ==
    LET neg == At(s, i) = "-"
        j == IF neg THEN i + 1 ELSE i
        ip == ScanDigits(s, j, 0)
        sgn == IF neg THEN -1 ELSE 1
    IN  IF ip.i = j THEN [v |-> JSONDecodeError, i |-> i]
        ELSE IF At(s, ip.i) = "."
        THEN LET fr == ScanDigits(s, ip.i + 1, 0)
             IN  IF fr.i = ip.i + 1 THEN [v |-> JSONDecodeError, i |-> i]
                 ELSE [v |-> PyFloat(sgn * (ip.n * 10 + DigitVal(s[ip.i + 1]))),
                       i |-> fr.i]
        ELSE [v |-> PyInt(sgn * ip.n), i |-> ip.i]

\* the position of the next quote at or after i, or 0
RECURSIVE FindQuote(_, _)
FindQuote(s, i) ==
    IF i > Len(s) THEN 0
    ELSE IF s[i] = Quote THEN i ELSE FindQuote(s, i + 1)

ScanString(s, i) ==
    LET j == FindQuote(s, i + 1)
        body == SubSeq(s, i + 1, j - 1)
    IN  IF j = 0 \/ ~(\E x \in Strings : Chars(x) = body)
        THEN [v |-> JSONDecodeError, i |-> i]
        ELSE [v |-> PyStr(CHOOSE x \in Strings : Chars(x) = body), i |-> j + 1]

RECURSIVE ParseValue(_, _), ParseItems(_, _, _), ParseMembers(_, _, _, _)

\* the elements of an array from position i on, up to its "]"
ParseItems(s, i, acc) ==
    LET e == ParseValue(s, i)
        j == SkipWs(s, e.i)
    IN  IF e.v = JSONDecodeError THEN e
        ELSE IF At(s, j) = "," THEN ParseItems(s, SkipWs(s, j + 1), Append(acc, e.v))
        ELSE IF At(s, j) = "]" THEN [v |-> PyList(Append(acc, e.v)), i |-> j + 1]
        ELSE [v |-> JSONDecodeError, i |-> j]

\* the members of an object from position i on, up to its "}"
ParseMembers(s, i, keys, vals) ==
    LET key == IF At(s, i) = Quote THEN ScanString(s, i)
               ELSE [v |-> JSONDecodeError, i |-> i]
        c == SkipWs(s, key.i)
        e == ParseValue(s, SkipWs(s, c + 1))
        j == SkipWs(s, e.i)
    IN  IF key.v = JSONDecodeError \/ At(s, c) # ":" THEN [v |-> JSONDecodeError, i |-> i]
        ELSE IF e.v = JSONDecodeError THEN e
        ELSE IF At(s, j) = ","
        THEN ParseMembers(s, SkipWs(s, j + 1), Append(keys, key.v.s), Append(vals, e.v))
        ELSE IF At(s, j) = "}"
        THEN [v |-> PyDict(Append(keys, key.v.s), Append(vals, e.v)), i |-> j + 1]
        ELSE [v |-> JSONDecodeError, i |-> j]

ParseValue(s, i) ==
    LET c == At(s, i)
    IN  CASE c = "[" ->
                IF At(s, SkipWs(s, i + 1)) = "]"
                THEN [v |-> PyList(<<>>), i |-> SkipWs(s, i + 1) + 1]
                ELSE ParseItems(s, SkipWs(s, i + 1), <<>>)
          [] c = "{" ->
                IF At(s, SkipWs(s, i + 1)) = "}"
                THEN [v |-> PyDict(<<>>, <<>>), i |-> SkipWs(s, i + 1) + 1]
                ELSE ParseMembers(s, SkipWs(s, i + 1), <<>>, <<>>)
          [] c = Quote -> ScanString(s, i)
          [] c = "-" \/ IsDigit(c) -> ScanNumber(s, i)
          [] OTHER -> [v |-> JSONDecodeError, i |-> i]

loads(s) ==
    LET r == ParseValue(s, SkipWs(s, 1))
    IN  IF r.v # JSONDecodeError /\ SkipWs(s, r.i) = Len(s) + 1 THEN r.v
        ELSE JSONDecodeError

\* d[key] of a parsed or built dict
get(d, key) == d.vals[CHOOSE i \in 1..Len(d.keys) : d.keys[i] = key]

(***************************************************************************)
(* Vocabulary of the properties.                                           *)
(***************************************************************************)
IsPrefix(a, b) == Len(a) <= Len(b) /\ SubSeq(b, 1, Len(a)) = a
IsStrictPrefix(a, b) == Len(a) < Len(b) /\ SubSeq(b, 1, Len(a)) = a

Steps(t) == {t[i] : i \in 1..Len(t)}

\* the output file has been created, opened or truncated in this run
Touched == f # None \/ disk # disk0 \/ "serialize" \in Steps(trace)

\* the error came out of joblib.load
LoadError(e) == e.k = "exception" /\ e.step = "load"
\* the error came out of opening or writing the output file
WriteError(e) == e.k = "exception" /\ e.step = "serialize" /\ e.type = "PermissionError"

\* the unpickled object is not of the expected type: it lacks one of the
\* attributes the script reads
Incompatible(a) ==
    a.k = "pickle" /\ \E i \in 1..Len(Attrs) : ~hasattr(a.obj, Attrs[i])

\* a Python number v holds the array element x of an array of type dtype
ScalarMatches(v, dtype, x) ==
    /\ v.k = (IF dtype = "float64" THEN "float" ELSE "int")
    /\ (IF v.k = "float" THEN v.t ELSE v.n) = x

\* the list l holds row i of the array a, element by element, in order
RowMatches(l, a, i) ==
    LET c == a.shape[Len(a.shape)]
    IN  /\ l.k = "list"
        /\ Len(l.items) = c
        /\ \A j \in 1..c : ScalarMatches(l.items[j], a.dtype, a.data[(i - 1) * c + j])

\* the nested list l has the dimensions and the elements of the array a
SameAsArray(l, a) ==
    IF Len(a.shape) = 1 THEN RowMatches(l, a, 1)
    ELSE /\ l.k = "list"
         /\ Len(l.items) = a.shape[1]
         /\ \A i \in 1..a.shape[1] : RowMatches(l.items[i], a, i)

\* the record rec holds, key by key, the attributes of the model m
ProjectionOf(rec, m) ==
    /\ rec.k = "dict"
    /\ rec.keys = Keys
    /\ Len(rec.vals) = Len(Keys)
    /\ \A i \in 1..Len(Keys) :
          IF CallsToList[i] THEN SameAsArray(rec.vals[i], m[Attrs[i]])
          ELSE rec.vals[i] = m[Attrs[i]]

RECURSIVE SumInts(_)
SumInts(items) == IF Len(items) = 0 THEN 0 ELSE Head(items).n + SumInts(Tail(items))

\* C1: when 'svm_param.joblib' is missing the run ends failed with the error
\* of the load step (FileNotFoundError) and the output file is never created,
\* opened or truncated; in any run the output file is touched only after the
\* load and the extract steps have completed.
C1_MissingInputNeverTouchesOutput ==
    /\ artifact = Missing => ~Touched /\ disk = disk0
    /\ (artifact = Missing /\ Terminal) =>
          /\ pc = "Failed"
          /\ LoadError(err)
          /\ err.type = "FileNotFoundError"
    /\ Touched => /\ svm_model # None
                  /\ model_data # None
                  /\ SubSeq(trace, 1, 2) = <<"load", "extract">>

C1_Witness == artifact = Missing /\ pc = "Failed" /\ disk0.exists = FALSE

\* C2: the success message is printed exactly once in a completed run, only
\* after the output file holds the whole record and is closed, and never in
\* a run that fails.
C2_MessageOnlyAfterCompleteWrite ==
    /\ Len(stdout) <= 1
    /\ pc = "Completed" => stdout = <<Message>>
    /\ pc = "Failed" => stdout = <<>>
    /\ stdout # <<>> =>
          /\ pc = "Completed"
          /\ f # None
          /\ f.closed
          /\ f.pending = <<>>
          /\ f.buffer = <<>>
          /\ disk = File(dumps(model_data))

C2_Witness == pc = "Completed" /\ stdout = <<Message>> /\ f.closed

\* C3: a second run on the same artifact leaves 'svm_model.json' exactly as
\* the first run left it, and a completed run leaves the record of the
\* artifact alone in the file whatever the file held before.
C3_Idempotent ==
    /\ (run >= 2 /\ Terminal) => disk = out1
    /\ pc = "Completed" => disk = File(dumps(extract(artifact.obj).value))

C3_Witness ==
    /\ run = 2
    /\ pc = "Completed"
    /\ out1.exists
    /\ disk = out1
    /\ disk0 = out1

\* C4: the record built from the model has exactly the eight keys, each
\* value the model's attribute: arrays with the same dimensions and the
\* same elements in the same order, gamma, C and kernel unchanged; the
\* record read back from the file of a completed run has the same keys.
C4_PureProjection ==
    /\ model_data # None => ProjectionOf(model_data, svm_model)
    /\ pc = "Completed" => loads(disk.data).keys = Keys

C4_Witness ==
    /\ pc = "Completed"
    /\ svm_model = SvcRbf
    /\ Len(get(model_data, "support_vectors").items) = 2
    /\ Len(get(model_data, "support_vectors").items[1].items) = 2

\* C5: after a completed run, parsing the output file gives for each of the
\* eight fields the value of the model's attribute: arrays element by
\* element in order, kernel as a string, gamma as a number or a setting.
C5_RoundTrip ==
    pc = "Completed" =>
        /\ loads(disk.data) # JSONDecodeError
        /\ ProjectionOf(loads(disk.data), artifact.obj)

C5_Witness ==
    /\ pc = "Completed"
    /\ artifact = Pickle(SvcLinear)
    /\ get(loads(disk.data), "gamma") = PyFloat(1)
    /\ get(loads(disk.data), "C") = PyInt(10)

\* C6 as stated: in the record of a completed run n_support sums to the
\* number of entries of support and to the number of rows of
\* support_vectors.
C6_Original ==
    pc = "Completed" =>
        LET rec == loads(disk.data)
            n == SumInts(get(rec, "n_support").items)
        IN  /\ n = Len(get(rec, "support").items)
            /\ n = Len(get(rec, "support_vectors").items)

\* C6 amended: in the record of a completed run n_support sums to the number
\* of entries of support; it also sums to the number of rows of
\* support_vectors unless the kernel is "precomputed", where support_vectors
\* is empty.
C6_SupportCounts ==
    pc = "Completed" =>
        LET rec == loads(disk.data)
            n == SumInts(get(rec, "n_support").items)
            rows == Len(get(rec, "support_vectors").items)
        IN  /\ n = Len(get(rec, "support").items)
            /\ IF get(rec, "kernel") = PyStr("precomputed") THEN rows = 0
               ELSE rows = n

C6_Witness ==
    /\ pc = "Completed"
    /\ artifact = Pickle(SvcLinear)
    /\ SumInts(get(loads(disk.data), "n_support").items) = 3
    /\ Len(get(loads(disk.data), "support_vectors").items) = 3

\* C7 as stated: a run on a missing, corrupted or incompatible artifact fails
\* with the error of the load step, a run that finds the output location
\* unwritable fails with a WriteError, and the error ends the run.
C7_Original ==
    /\ (Terminal /\ (artifact \in {Missing, Corrupted} \/ Incompatible(artifact))) =>
          pc = "Failed" /\ LoadError(err)
    /\ (Terminal /\ ~writable /\ "serialize" \in Steps(trace)) =>
          pc = "Failed" /\ WriteError(err)
    /\ (err # None) <=> (pc = "Failed")

\* C7 amended: a run on a missing or corrupted artifact fails in the load step;
\* an artifact of an incompatible type is loaded and the run fails in the
\* extract step with an AttributeError; a run that reaches the open of an
\* unwritable output fails there with a PermissionError; the first error
\* ends the run: the step that raised is the last step begun and nothing is
\* printed.
C7_ErrorsAreTerminal ==
    /\ (Terminal /\ artifact \in {Missing, Corrupted}) =>
          /\ pc = "Failed"
          /\ LoadError(err)
          /\ trace = <<"load">>
    /\ (Terminal /\ Incompatible(artifact)) =>
          /\ pc = "Failed"
          /\ err = Exception("AttributeError", "extract")
          /\ svm_model = artifact.obj
          /\ trace = <<"load", "extract">>
    /\ (Terminal /\ ~writable /\ "serialize" \in Steps(trace)) =>
          /\ pc = "Failed"
          /\ WriteError(err)
          /\ disk = disk0
    /\ (err # None) <=> (pc = "Failed")
    /\ pc = "Failed" =>
          /\ trace[Len(trace)] = err.step
          /\ "notify" \notin Steps(trace)
          /\ stdout = <<>>

C7_Witness ==
    /\ pc = "Failed"
    /\ Incompatible(artifact)
    /\ err = Exception("AttributeError", "extract")

\* what another process can see of a run: the output file and the console
Observable == <<disk, stdout>>

\* C8 as stated: until the run has ended nothing observable differs from the
\* state before the run.
C8_Original == ~Terminal => Observable = <<disk0, <<>>>>

\* C8 amended: every run ends Completed or Failed and stays there, and the
\* console shows nothing before the run has ended; the output file does pass
\* through intermediate states.
C8_RunEndsAndStays ==
    /\ <>Terminal
    /\ [][Terminal => UNCHANGED vars]_vars
    /\ [](~Terminal => stdout = <<>>)

C8_Witness ==
    /\ pc = "print"
    /\ disk # disk0
    /\ disk = File(dumps(model_data))
    /\ stdout = <<>>

\* C9: from the open until the last chunk is written the file another
\* process sees is a strict prefix of the new record (possibly empty): it is
\* not the file of before the run and not a complete record.
C9_PartialFileVisible ==
    (pc = "dump" /\ pos < Len(iterencode(model_data).chunks)) =>
        /\ disk.exists
        /\ IsStrictPrefix(disk.data, Concat(iterencode(model_data).chunks))
        /\ disk # disk0
        /\ loads(disk.data) = JSONDecodeError

C9_Witness ==
    /\ pc = "dump"
    /\ disk0.exists
    /\ disk.data # <<>>
    /\ ~iterencode(model_data).raises
    /\ IsStrictPrefix(disk.data, dumps(model_data))
    /\ ~IsPrefix(disk.data, disk0.data)

\* C10: a run that fails after the file was opened leaves the file existing,
\* holding exactly the chunks written before the failure, which is no
\* complete record; what the file held before the run is gone.
C10_FailedWriteLosesOldRecord ==
    (pc = "Failed" /\ f # None) =>
        /\ disk.exists
        /\ disk # disk0
        /\ disk.data = Concat(iterencode(model_data).chunks)
        /\ loads(disk.data) = JSONDecodeError
        /\ disk0.exists => ~IsPrefix(disk0.data, disk.data)

C10_Witness ==
    /\ pc = "Failed"
    /\ f # None
    /\ disk0.exists
    /\ loads(disk0.data) # JSONDecodeError
    /\ disk.data # <<>>

=============================================================================
